---- MODULE Spec2Model ----
(***************************************************************************)
(* Queue downloader (src/main.py): the queue loader, the error classifier, *)
(* the per-URL retry loop and the run recorder, as state machines.         *)
(* Text is a sequence of one-character strings, so that searching,         *)
(* trimming, splitting and joining are computed as the code computes them. *)
(***************************************************************************)
EXTENDS Integers, Sequences, FiniteSets, TLC

VARIABLES
    \* --- the error classifier applied to one message (SpecClassify)
    c_pc,          \* "start" | "done"
    c_exc,         \* str(exc): the message handed to classify_error
    c_ret,         \* the StatusCode returned, "none" before the call
    \* --- the queue loader run over one queue file (SpecQueue)
    q_pc,          \* "start" | "loop" | "done"
    q_file,        \* cfg.queue_file as load_queue finds it
    q_lines,       \* lines: the file's lines (main.py:69)
    q_idx,         \* the index of the next line of the for loop (main.py:71)
    q_urls,        \* urls: the list built so far (main.py:70)
    \* --- runs of the program (Spec)
    pc,            \* where the run is: "idle" | "call" | "extract" | "download" |
                   \* "sleep" | "record" | "append" | "persist" | "done" | "aborted"
    max_retries,   \* cfg.max_retries
    queue_file,    \* cfg.queue_file on disk
    failed_file,   \* cfg.failed_file on disk
    log_file,      \* cfg.log_file on disk
    run,           \* the number of runs started; also the run's timestamp `now`
    urls,          \* process_queue: urls
    idx,           \* process_queue: the position of the for loop in urls
    log_entries,   \* process_queue: log_entries
    failed_urls,   \* process_queue: failed_urls
    attempts,      \* download_single: attempts
    last_status,   \* download_single: last_status
    ret,           \* download_single: the (StatusCode, int) it returned
    \* --- what an observer of the run counts
    extracts,      \* calls of ydl.extract_info for the current URL
    downloads,     \* calls of ydl.download in the current attempt
    sleeps,        \* calls of time.sleep that returned, for the current URL
    fails,         \* attempts for the current URL that ended in a failure
    all_rate,      \* every such failure carried a rate-limit-shaped message
    last_msg,      \* str(exc) of the latest such failure, <<>> before the first
    made,          \* for each URL this run has resolved: the attempts made, and
                   \* whether all of them failed with a rate-limit-shaped message
    pre_failed,    \* cfg.failed_file as it was when the run started
    pre_log,       \* cfg.log_file as it was when the run started
    abort_at,      \* where the KeyboardInterrupt arrived, "none" without one
    failed_writes, \* writes of cfg.failed_file in this run
    log_writes     \* writes of cfg.log_file in this run

clsVars == <<c_pc, c_exc, c_ret>>
qVars == <<q_pc, q_file, q_lines, q_idx, q_urls>>
diskVars == <<queue_file, failed_file, log_file>>
loopVars == <<urls, idx, log_entries, failed_urls>>
callVars ==
    <<attempts, last_status, ret, extracts, downloads, sleeps, fails, all_rate, last_msg>>
runVars ==
    <<pc, max_retries, diskVars, run, loopVars, callVars, made, pre_failed, pre_log,
      abort_at, failed_writes, log_writes>>
vars == <<clsVars, qVars, runVars>>

-----------------------------------------------------------------------------
(* Text helpers *)

S_429 == <<"4", "2", "9">>
S_too_many_requests ==
    <<"t", "o", "o", " ", "m", "a", "n", "y", " ", "r", "e", "q", "u", "e", "s", "t", "s">>
S_rate == <<"r", "a", "t", "e">>
S_age == <<"a", "g", "e">>
S_restrict == <<"r", "e", "s", "t", "r", "i", "c", "t">>

\* str.lower() on one character
LowerChar(c) ==
    CASE c = "A" -> "a" [] c = "B" -> "b" [] c = "C" -> "c"
      [] c = "D" -> "d" [] c = "E" -> "e" [] c = "F" -> "f"
      [] c = "G" -> "g" [] c = "H" -> "h" [] c = "I" -> "i"
      [] c = "J" -> "j" [] c = "K" -> "k" [] c = "L" -> "l"
      [] c = "M" -> "m" [] c = "N" -> "n" [] c = "O" -> "o"
      [] c = "P" -> "p" [] c = "Q" -> "q" [] c = "R" -> "r"
      [] c = "S" -> "s" [] c = "T" -> "t" [] c = "U" -> "u"
      [] c = "V" -> "v" [] c = "W" -> "w" [] c = "X" -> "x"
      [] c = "Y" -> "y" [] c = "Z" -> "z"
      [] OTHER -> c

\* str.lower()
Lower(s) == [k \in 1..Len(s) |-> LowerChar(s[k])]

\* s[p : p + len(sub)] == sub, p counted from 1
MatchAt(s, p, sub) ==
    /\ p >= 1
    /\ p + Len(sub) - 1 <= Len(s)
    /\ \A k \in 1..Len(sub) : s[p + k - 1] = sub[k]

\* sub in s
Contains(s, sub) == \E p \in 1..(Len(s) - Len(sub) + 1) : MatchAt(s, p, sub)

\* the word w occurs in msg, letters compared without regard to case
HasWord(msg, w) ==
    \E p \in 1..Len(msg) :
        /\ p + Len(w) - 1 <= Len(msg)
        /\ \A k \in 1..Len(w) : LowerChar(msg[p + k - 1]) = w[k]

-----------------------------------------------------------------------------
(* Error classifier, main.py:116-122 *)

\* classify_error without lower(): the keywords are matched in lower case only
classify_error_cased(exc) ==
    IF Contains(exc, S_429) \/ Contains(exc, S_too_many_requests) \/ Contains(exc, S_rate)
    THEN "RATE_LIMIT"
    ELSE IF Contains(exc, S_age) /\ Contains(exc, S_restrict)
    THEN "AGE_LIMIT"
    ELSE "UNKNOWN_ERROR"

\* classify_error with its two tests in the other order
classify_error_age_first(exc) ==
    LET msg == Lower(exc) IN
    IF Contains(msg, S_age) /\ Contains(msg, S_restrict)
    THEN "AGE_LIMIT"
    ELSE IF Contains(msg, S_429) \/ Contains(msg, S_too_many_requests)
            \/ Contains(msg, S_rate)
    THEN "RATE_LIMIT"
    ELSE "UNKNOWN_ERROR"

classify_error(exc) ==
    LET msg == Lower(exc) IN
    IF Contains(msg, S_429) \/ Contains(msg, S_too_many_requests) \/ Contains(msg, S_rate)
    THEN "RATE_LIMIT"
    ELSE IF Contains(msg, S_age) /\ Contains(msg, S_restrict)
    THEN "AGE_LIMIT"
    ELSE "UNKNOWN_ERROR"

-----------------------------------------------------------------------------
(* Files: a path either does not exist or holds a text *)

NoFile == [exists |-> FALSE, text |-> <<>>]
TextFile(t) == [exists |-> TRUE, text |-> t]

NL == "\n"
CR == "\r"

RECURSIVE read_text(_)
\* Path.read_text(): text mode reads with universal newlines, "\r\n" and "\r"
\* both arrive as "\n"
read_text(t) ==
    IF \A k \in 1..Len(t) : t[k] # CR THEN t
    ELSE LET c == CHOOSE k \in 1..Len(t) : t[k] = CR /\ \A j \in 1..(k - 1) : t[j] # CR
             rest == IF c < Len(t) /\ t[c + 1] = NL THEN c + 2 ELSE c + 1
         IN  SubSeq(t, 1, c - 1) \o <<NL>> \o read_text(SubSeq(t, rest, Len(t)))

\* the index of the first line break of t, 0 when it has none
FirstBreak(t) ==
    IF \E k \in 1..Len(t) : t[k] = NL
    THEN CHOOSE k \in 1..Len(t) : t[k] = NL /\ \A j \in 1..(k - 1) : t[j] # NL
    ELSE 0

RECURSIVE splitlines(_)
\* str.splitlines(): no line for an empty text, none after a final line break
splitlines(t) ==
    IF t = <<>> THEN <<>>
    ELSE LET n == FirstBreak(t) IN
         IF n = 0 THEN <<t>>
         ELSE <<SubSeq(t, 1, n - 1)>> \o splitlines(SubSeq(t, n + 1, Len(t)))

RECURSIVE join_lines(_)
\* "\n".join(merged) + "\n" for a non-empty list: every line followed by "\n"
join_lines(ls) ==
    IF ls = <<>> THEN <<>>
    ELSE Head(ls) \o <<NL>> \o join_lines(Tail(ls))

-----------------------------------------------------------------------------
(* Queue loader, main.py:30-33 and 66-79 *)

IsSpace(c) == c \in {" ", "\t", NL, CR}

\* str.strip()
strip(s) ==
    IF \A k \in 1..Len(s) : IsSpace(s[k]) THEN <<>>
    ELSE LET a == CHOOSE k \in 1..Len(s) :
                      ~IsSpace(s[k]) /\ \A j \in 1..(k - 1) : IsSpace(s[j])
             b == CHOOSE k \in 1..Len(s) :
                      ~IsSpace(s[k]) /\ \A j \in (k + 1)..Len(s) : IsSpace(s[j])
         IN  SubSeq(s, a, b)

S_http == <<"h", "t", "t", "p">>
S_css == <<":", "/", "/">>
S_www == <<"w", "w", "w", ".">>
S_youtube_com == <<"y", "o", "u", "t", "u", "b", "e", ".", "c", "o", "m">>
S_youtu_be == <<"y", "o", "u", "t", "u", ".", "b", "e">>

\* the position after "https?://" matched at p, 0 when it does not match there
SchemeEnd(s, p) ==
    IF ~MatchAt(s, p, S_http) THEN 0
    ELSE IF MatchAt(s, p + 4, S_css) THEN p + 7
    ELSE IF MatchAt(s, p + 4, <<"s">>) /\ MatchAt(s, p + 5, S_css) THEN p + 8
    ELSE 0

\* [^\s)]
LinkChar(c) == ~IsSpace(c) /\ c # ")"

\* the last index of the longest run of [^\s)] starting at from (from - 1: empty run)
RunEnd(s, from) ==
    CHOOSE e \in (from - 1)..Len(s) :
        /\ \A k \in from..e : LinkChar(s[k])
        /\ e = Len(s) \/ ~LinkChar(s[e + 1])

\* MARKDOWN_LINK_RE matched with its "(" at p: the last index of group 1, else 0
LinkEndAt(s, p) ==
    IF ~MatchAt(s, p, <<"(">>) THEN 0
    ELSE LET q == SchemeEnd(s, p + 1) IN
         IF q = 0 THEN 0
         ELSE LET e == RunEnd(s, q) IN
              IF e >= q /\ MatchAt(s, e + 1, <<")">>) THEN e ELSE 0

\* MARKDOWN_LINK_RE.search(raw): <<group(1)>> of the leftmost match, <<>> for None
markdown_search(raw) ==
    IF \E p \in 1..Len(raw) : LinkEndAt(raw, p) # 0
    THEN LET p == CHOOSE p \in 1..Len(raw) :
                      LinkEndAt(raw, p) # 0 /\ \A j \in 1..(p - 1) : LinkEndAt(raw, j) = 0
         IN  <<SubSeq(raw, p + 1, LinkEndAt(raw, p))>>
    ELSE <<>>

\* "(youtube\.com|youtu\.be)/" at q
HostAt(s, q) ==
    \/ MatchAt(s, q, S_youtube_com \o <<"/">>)
    \/ MatchAt(s, q, S_youtu_be \o <<"/">>)

\* YOUTUBE_URL_RE.search(candidate) is not None; re.IGNORECASE
youtube_search(candidate) ==
    LET t == Lower(candidate) IN
    \E p \in 1..Len(t) :
        LET q == SchemeEnd(t, p) IN
        /\ q # 0
        /\ \/ MatchAt(t, q, S_www) /\ HostAt(t, q + 4)
           \/ HostAt(t, q)

\* line_urls without the markdown search: the candidate is always the line
line_urls_raw(line) ==
    LET raw == strip(line) IN
    IF raw = <<>> \/ raw[1] = "#" THEN <<>>
    ELSE IF youtube_search(raw) THEN <<raw>> ELSE <<>>

\* one pass of the for loop, main.py:72-78: what the line appends to urls
line_urls(line) ==
    LET raw == strip(line) IN
    IF raw = <<>> \/ raw[1] = "#" THEN <<>>
    ELSE LET match == markdown_search(raw)
             candidate == IF match # <<>> THEN match[1] ELSE raw
         IN  IF youtube_search(candidate) THEN <<candidate>> ELSE <<>>

RECURSIVE scan_lines(_)
scan_lines(lines) ==
    IF lines = <<>> THEN <<>>
    ELSE line_urls(Head(lines)) \o scan_lines(Tail(lines))

\* load_queue as one call
load_queue(file) ==
    IF ~file.exists THEN <<>>
    ELSE scan_lines(splitlines(read_text(file.text)))
-----------------------------------------------------------------------------
(* Queue lines the loader is run on *)

\* a blank line
L_blank ==
    <<>>
\* a line of whitespace
L_spaces ==
    <<" ", "\t">>
\* a comment that holds a video URL
L_comment ==
    <<"#", " ", "h", "t", "t", "p", "s", ":", "/", "/", "y", "o", "u", "t", "u",
      ".", "b", "e", "/", "a">>
\* a comment behind leading whitespace
L_indented_comment ==
    <<" ", "#", "x">>
\* a bare URL
L_plain ==
    <<"h", "t", "t", "p", "s", ":", "/", "/", "y", "o", "u", "t", "u", ".", "b",
      "e", "/", "a">>
\* a bare URL inside whitespace
L_padded ==
    <<" ", "h", "t", "t", "p", ":", "/", "/", "w", "w", "w", ".", "y", "o", "u",
      "t", "u", "b", "e", ".", "c", "o", "m", "/", "b", " ">>
\* a markdown link
L_markdown ==
    <<"[", "T", "]", "(", "h", "t", "t", "p", "s", ":", "/", "/", "y", "o", "u",
      "t", "u", "b", "e", ".", "c", "o", "m", "/", "c", ")">>
\* a markdown link to another host
L_markdown_other ==
    <<"[", "V", "]", "(", "h", "t", "t", "p", "s", ":", "/", "/", "v", "i", "m",
      "e", "o", ".", "c", "o", "m", "/", "v", ")">>
\* a bare URL of another host
L_other ==
    <<"h", "t", "t", "p", "s", ":", "/", "/", "v", "i", "m", "e", "o", ".", "c",
      "o", "m", "/", "v">>
\* a bare URL in upper case
L_upper ==
    <<"H", "T", "T", "P", "S", ":", "/", "/", "Y", "o", "u", "T", "u", "b", "e",
      ".", "c", "o", "m", "/", "d">>
\* two parenthesised URLs, the first of another host
L_two_links ==
    <<"(", "h", "t", "t", "p", ":", "/", "/", "x", ")", " ", "(", "h", "t", "t",
      "p", "s", ":", "/", "/", "y", "o", "u", "t", "u", ".", "b", "e", "/", "e",
      ")">>
\* a URL inside a sentence
L_prose ==
    <<"s", "e", "e", " ", "h", "t", "t", "p", "s", ":", "/", "/", "y", "o", "u",
      "t", "u", ".", "b", "e", "/", "f", " ", "o", "k">>
\* a parenthesis that is never closed
L_unclosed ==
    <<"(", "h", "t", "t", "p", "s", ":", "/", "/", "y", "o", "u", "t", "u", ".",
      "b", "e", "/", "g">>
\* a host without a scheme
L_no_scheme ==
    <<"y", "o", "u", "t", "u", "b", "e", ".", "c", "o", "m", "/", "h">>
\* a parenthesised URL broken by a space, then a link
L_spaced_link ==
    <<"(", "h", "t", "t", "p", "s", ":", "/", "/", "a", " ", "b", ")", " ", "(",
      "h", "t", "t", "p", "s", ":", "/", "/", "y", "o", "u", "t", "u", ".", "b",
      "e", "/", "i", ")">>
\* a host without the slash after it
L_no_slash ==
    <<"h", "t", "t", "p", "s", ":", "/", "/", "y", "o", "u", "t", "u", ".", "b",
      "e">>
\* a subdomain other than www
L_mobile ==
    <<"h", "t", "t", "p", "s", ":", "/", "/", "m", ".", "y", "o", "u", "t", "u",
      "b", "e", ".", "c", "o", "m", "/", "j">>
\* a markdown link whose scheme is in upper case
L_upper_link ==
    <<"[", "T", "]", "(", "H", "T", "T", "P", ":", "/", "/", "y", "o", "u", "t",
      "u", ".", "b", "e", "/", "k", ")">>

LinePool ==
    {L_blank,
     L_spaces,
     L_comment,
     L_indented_comment,
     L_plain,
     L_padded,
     L_markdown,
     L_markdown_other,
     L_other,
     L_upper,
     L_two_links,
     L_prose,
     L_unclosed,
     L_no_scheme,
     L_spaced_link,
     L_no_slash,
     L_mobile,
     L_upper_link}

-----------------------------------------------------------------------------
(* The classifier run on one message: messages are built from fragments, so
   that a keyword can also arise across the seam of two fragments *)

M_429 == <<"4", "2", "9">>
M_42 == <<"4", "2">>
M_9 == <<"9">>
M_too_many == <<"T", "o", "o", " ", "M", "a", "n", "y", " ">>
M_requests == <<"R", "e", "q", "u", "e", "s", "t", "s">>
M_RATE == <<"R", "A", "T", "E">>
M_ra == <<"r", "a">>
M_te == <<"t", "e">>
M_Age == <<"A", "g", "e">>
M_restrict == <<"R", "e", "s", "t", "r", "i", "c", "t">>
M_x == <<"x">>
M_space == <<" ">>

MsgFrags ==
    {M_429, M_42, M_9, M_too_many, M_requests, M_RATE,
     M_ra, M_te, M_Age, M_restrict, M_x, M_space}

\* the most fragments a message is built from
MaxFrags == 3

RECURSIVE MsgsOfLen(_)
MsgsOfLen(n) ==
    IF n = 0 THEN {<<>>}
    ELSE {f \o m : f \in MsgFrags, m \in MsgsOfLen(n - 1)}

Messages == UNION {MsgsOfLen(n) : n \in 0..MaxFrags}

ClsParked == c_pc = "off" /\ c_exc = <<>> /\ c_ret = "none"

ClsInit == c_pc = "start" /\ c_exc \in Messages /\ c_ret = "none"

\* the call classify_error(exc), main.py:116-122
Classify ==
    /\ c_pc = "start"
    /\ c_ret' = classify_error(c_exc)
    /\ c_pc' = "done"
    /\ UNCHANGED c_exc

-----------------------------------------------------------------------------
(* The loader run on one queue file, one pass of its loop at a time *)

\* the most lines a queue file is built from
MaxLines == 2

\* the line terminators a file is written with; "open" leaves the last line
\* without one
Terminators == {"lf", "crlf", "open"}

RECURSIVE write_lines(_, _)
write_lines(ls, term) ==
    IF ls = <<>> THEN <<>>
    ELSE Head(ls)
         \o (IF term = "crlf" THEN <<CR, NL>>
             ELSE IF term = "open" /\ Len(ls) = 1 THEN <<>>
             ELSE <<NL>>)
         \o write_lines(Tail(ls), term)

QueueFiles ==
    {NoFile} \cup
    {TextFile(write_lines(ls, term)) :
        ls \in UNION {[1..n -> LinePool] : n \in 0..MaxLines}, term \in Terminators}

QParked ==
    q_pc = "off" /\ q_file = NoFile /\ q_lines = <<>> /\ q_idx = 0 /\ q_urls = <<>>

QInit ==
    q_pc = "start" /\ q_file \in QueueFiles /\ q_lines = <<>> /\ q_idx = 0 /\ q_urls = <<>>

\* main.py:67-70: the missing file returns [], else the lines are read
QOpen ==
    /\ q_pc = "start"
    /\ IF ~q_file.exists
       THEN q_pc' = "done" /\ UNCHANGED <<q_lines, q_idx>>
       ELSE /\ q_lines' = splitlines(read_text(q_file.text))
            /\ q_idx' = 1
            /\ q_pc' = "loop"
    /\ q_urls' = <<>>
    /\ UNCHANGED q_file

\* main.py:71-78: one line of the for loop
QLine ==
    /\ q_pc = "loop"
    /\ q_idx <= Len(q_lines)
    /\ q_urls' = q_urls \o line_urls(q_lines[q_idx])
    /\ q_idx' = q_idx + 1
    /\ UNCHANGED <<q_pc, q_file, q_lines>>

\* main.py:79: return urls
QReturn ==
    /\ q_pc = "loop"
    /\ q_idx > Len(q_lines)
    /\ q_pc' = "done"
    /\ UNCHANGED <<q_file, q_lines, q_idx, q_urls>>


-----------------------------------------------------------------------------
(* Log storage, main.py:82-93.  The file holds no JSON, JSON that is not an
   array, or an array of entries *)

NoLog == [exists |-> FALSE, kind |-> "none", entries |-> <<>>]
MalformedLog == [exists |-> TRUE, kind |-> "malformed", entries |-> <<>>]
NonListLog == [exists |-> TRUE, kind |-> "nonlist", entries |-> <<>>]
ListLog(es) == [exists |-> TRUE, kind |-> "list", entries |-> es]

\* load_log that starts every run from an empty list
load_log_fresh(file) == <<>>

\* load_log wrapping a document that is not an array into a one-element list
load_log_wrapped(file) ==
    IF ~file.exists THEN <<>>
    ELSE IF file.kind = "malformed" THEN <<>>
    ELSE IF file.kind = "list" THEN file.entries ELSE <<file.kind>>

\* main.py:82-89
load_log(file) ==
    IF ~file.exists THEN <<>>
    ELSE IF file.kind = "malformed" THEN <<>>
    ELSE IF file.kind = "list" THEN file.entries ELSE <<>>

\* main.py:92-93
persist_log(entries) == ListLog(entries)

\* append_failed that does not read the existing file
append_failed_overwrite(file, failed) ==
    IF failed = <<>> THEN file ELSE TextFile(join_lines(failed))

\* main.py:96-103: the file after append_failed(cfg, failed)
append_failed(file, failed) ==
    IF failed = <<>> THEN file
    ELSE LET existing == IF file.exists THEN splitlines(read_text(file.text)) ELSE <<>>
             merged == existing \o failed
         IN  TextFile(join_lines(merged))

-----------------------------------------------------------------------------
(* Runs: main.py:125-202 *)

\* the most runs of the program in one behaviour
MaxRuns == 2
\* a run starts only if the log holds at most this many entries after it
MaxLogLen == 3
\* the largest cfg.max_retries a run is configured with
MaxRetriesBound == 3

E_rate == <<"E", "4", "2", "9">>
E_age == <<"A", "g", "e", "-", "R", "e", "s", "t", "r", "i", "c", "t">>
E_other == <<"g", "o", "n", "e">>
\* str(exc) of the failures an attempt can raise
RunMessages == {E_rate, E_age, E_other}

S_old == <<"o", "l", "d">>
OldEntry ==
    [url |-> S_old, status |-> "failed", status_code |-> "UNKNOWN_ERROR",
     retries |-> 3, date_created |-> 0]

\* the failure file and the log file a behaviour starts with
St_none == [failed |-> NoFile, log |-> NoLog]
St_old == [failed |-> TextFile(S_old \o <<NL>>), log |-> ListLog(<<OldEntry>>)]
\* CRLF lines, a blank line, no final terminator; a log that is not JSON
St_malformed == [failed |-> TextFile(<<"a", CR, NL, CR, NL, "b">>), log |-> MalformedLog]
\* a log that is JSON but no array
St_nonlist == [failed |-> NoFile, log |-> NonListLog]
\* a line without its terminator; the empty array
St_empty == [failed |-> TextFile(S_old), log |-> ListLog(<<>>)]

\* the queue file of a behaviour: absent, without a retained line, one URL,
\* two URLs among other lines, the same URL twice
Q_missing == NoFile
Q_none == TextFile(write_lines(<<L_comment, L_blank, L_other>>, "lf"))
Q_one == TextFile(write_lines(<<L_plain>>, "lf"))
Q_two == TextFile(write_lines(<<L_markdown, L_other, L_padded>>, "open"))
Q_dup == TextFile(write_lines(<<L_plain, L_plain>>, "crlf"))

\* the queue and the storage a behaviour starts with
Scenarios ==
    ({Q_missing, Q_none} \X {St_none, St_old, St_malformed})
    \cup ({Q_one} \X {St_none, St_old, St_malformed, St_nonlist, St_empty})
    \cup {<<Q_two, St_old>>, <<Q_dup, St_none>>}

NoRet == [status |-> "none", n |-> 0]

\* download_single's frame before a call; what the observer has counted is reset
CallReset ==
    /\ attempts' = 0 /\ last_status' = "UNKNOWN_ERROR" /\ ret' = NoRet
    /\ extracts' = 0 /\ downloads' = 0 /\ sleeps' = 0
    /\ fails' = 0 /\ all_rate' = TRUE /\ last_msg' = <<>>

\* the message has the shape of a rate limit: "429", "too many requests" or
\* "rate" in it, in any case
RateShaped(msg) == \E w \in {S_429, S_too_many_requests, S_rate} : HasWord(msg, w)

RunParked ==
    /\ pc = "off" /\ max_retries = 0 /\ run = 0
    /\ queue_file = NoFile /\ failed_file = NoFile /\ log_file = NoLog
    /\ urls = <<>> /\ idx = 0 /\ log_entries = <<>> /\ failed_urls = <<>>
    /\ attempts = 0 /\ last_status = "UNKNOWN_ERROR" /\ ret = NoRet
    /\ extracts = 0 /\ downloads = 0 /\ sleeps = 0
    /\ fails = 0 /\ all_rate = TRUE /\ last_msg = <<>> /\ made = <<>>
    /\ pre_failed = NoFile /\ pre_log = NoLog /\ abort_at = "none"
    /\ failed_writes = 0 /\ log_writes = 0

RunInit ==
    /\ pc = "idle" /\ run = 0
    /\ max_retries \in 0..MaxRetriesBound
    /\ \E sc \in Scenarios :
          queue_file = sc[1] /\ failed_file = sc[2].failed /\ log_file = sc[2].log
    /\ urls = <<>> /\ idx = 0 /\ log_entries = <<>> /\ failed_urls = <<>>
    /\ attempts = 0 /\ last_status = "UNKNOWN_ERROR" /\ ret = NoRet
    /\ extracts = 0 /\ downloads = 0 /\ sleeps = 0
    /\ fails = 0 /\ all_rate = TRUE /\ last_msg = <<>> /\ made = <<>>
    /\ pre_failed = failed_file /\ pre_log = log_file /\ abort_at = "none"
    /\ failed_writes = 0 /\ log_writes = 0

\* process_queue without the early return
queue_is_empty_never(us) == FALSE

\* main.py:160: `if not urls`
queue_is_empty(us) == us = <<>>

\* main(), process_queue up to its for loop: main.py:198-200 and 157-166
StartRun ==
    /\ pc \in {"idle", "done", "aborted"}
    /\ run < MaxRuns
    /\ Len(load_log(log_file)) + Len(load_queue(queue_file)) <= MaxLogLen
    /\ run' = run + 1
    /\ LET us == load_queue(queue_file) IN
       /\ urls' = us
       /\ IF queue_is_empty(us)
          THEN pc' = "done" /\ log_entries' = <<>>
          ELSE /\ log_entries' = load_log(log_file)
               /\ pc' = IF Len(us) >= 1 THEN "call" ELSE "append"
    /\ idx' = 1
    /\ failed_urls' = <<>>
    /\ CallReset
    /\ made' = <<>>
    /\ pre_failed' = failed_file /\ pre_log' = log_file /\ abort_at' = "none"
    /\ failed_writes' = 0 /\ log_writes' = 0
    /\ UNCHANGED <<max_retries, diskVars>>

\* the while loop giving up one attempt early
loop_test_short(a, m) == a + 1 < m

\* the while loop admitting one attempt too many
loop_test_inclusive(a, m) == a <= m

\* main.py:129: `while attempts < cfg.max_retries`
loop_test(a, m) == a < m

\* the sleep taken after every failed attempt, the last one too
sleep_test_always(a, m) == TRUE

\* main.py:152: `if attempts < cfg.max_retries`
sleep_test(a, m) == a < m

\* the metadata extracted once, before the loop: a later attempt goes straight
\* to the download
LoopTopResume(a, st) ==
    IF loop_test(a, max_retries)
    THEN /\ attempts' = a + 1
         /\ extracts' = IF a = 0 THEN 1 ELSE extracts
         /\ downloads' = IF a = 0 THEN 0 ELSE 1
         /\ pc' = IF a = 0 THEN "extract" ELSE "download"
         /\ ret' = NoRet
    ELSE /\ attempts' = a
         /\ UNCHANGED <<extracts, downloads>>
         /\ pc' = "record"
         /\ ret' = [status |-> st, n |-> a]

\* main.py:129-134 and 154, the top of the while loop reached with attempts = a
\* and last_status = st: the next attempt starts, or the loop ends and
\* download_single returns (last_status, attempts)
LoopTop(a, st) ==
    IF loop_test(a, max_retries)
    THEN /\ attempts' = a + 1
         /\ extracts' = extracts + 1
         /\ downloads' = 0
         /\ pc' = "extract"
         /\ ret' = NoRet
    ELSE /\ attempts' = a
         /\ UNCHANGED <<extracts, downloads>>
         /\ pc' = "record"
         /\ ret' = [status |-> st, n |-> a]

\* main.py:169 and 126-129: download_single is entered for urls[idx]
Call ==
    /\ pc = "call"
    /\ last_status' = "UNKNOWN_ERROR"
    /\ LoopTop(0, "UNKNOWN_ERROR")
    /\ UNCHANGED <<max_retries, diskVars, run, loopVars, sleeps, fails, all_rate,
                   last_msg, made, pre_failed, pre_log, abort_at, failed_writes,
                   log_writes>>

\* main.py:133-142: extract_info returns, the folder is made
ExtractOk ==
    /\ pc = "extract"
    /\ pc' = "download"
    /\ downloads' = downloads + 1
    /\ UNCHANGED <<max_retries, diskVars, run, loopVars, attempts, last_status, ret,
                   extracts, sleeps, fails, all_rate, last_msg, made, pre_failed,
                   pre_log, abort_at, failed_writes, log_writes>>

\* download_single returning the attempts made on success
success_return_attempts(a) == [status |-> "SUCCESS", n |-> a]

\* main.py:143-145: download returns: return StatusCode.SUCCESS, attempts - 1
success_return(a) == [status |-> "SUCCESS", n |-> a - 1]

DownloadOk ==
    /\ pc = "download"
    /\ ret' = success_return(attempts)
    /\ pc' = "record"
    /\ UNCHANGED <<max_retries, diskVars, run, loopVars, attempts, last_status,
                   extracts, downloads, sleeps, fails, all_rate, last_msg, made,
                   pre_failed, pre_log, abort_at, failed_writes, log_writes>>

\* the except clause sets last_status; main.py:152-153: sleep if attempts
\* remain, else back to the top of the loop
AfterFailure(msg) ==
    /\ last_msg' = msg
    /\ fails' = fails + 1
    /\ last_status' = classify_error(msg)
    /\ all_rate' = (all_rate /\ RateShaped(msg))
    /\ IF sleep_test(attempts, max_retries)
       THEN pc' = "sleep" /\ UNCHANGED <<attempts, extracts, downloads, ret>>
       ELSE LoopTop(attempts, classify_error(msg))
    /\ UNCHANGED <<max_retries, diskVars, run, loopVars, sleeps, made, pre_failed,
                   pre_log, abort_at, failed_writes, log_writes>>

\* main.py:146-147: except (DownloadError, ExtractorError)
RecognizedFailure ==
    /\ pc \in {"extract", "download"}
    /\ \E msg \in RunMessages : AfterFailure(msg)

\* `except Exception` recording UNKNOWN_ERROR without classifying the message
UnexpectedFailureUnclassified ==
    /\ pc \in {"extract", "download"}
    /\ \E msg \in RunMessages :
          /\ last_msg' = msg
          /\ fails' = fails + 1
          /\ last_status' = "UNKNOWN_ERROR"
          /\ all_rate' = (all_rate /\ RateShaped(msg))
          /\ IF sleep_test(attempts, max_retries)
             THEN pc' = "sleep" /\ UNCHANGED <<attempts, extracts, downloads, ret>>
             ELSE LoopTop(attempts, "UNKNOWN_ERROR")
    /\ UNCHANGED <<max_retries, diskVars, run, loopVars, sleeps, made, pre_failed,
                   pre_log, abort_at, failed_writes, log_writes>>

\* main.py:150-151: except Exception
UnexpectedFailure ==
    /\ pc \in {"extract", "download"}
    /\ \E msg \in RunMessages : AfterFailure(msg)

\* main.py:153: time.sleep returns, back to the top of the loop
SleepDone ==
    /\ pc = "sleep"
    /\ sleeps' = sleeps + 1
    /\ LoopTop(attempts, last_status)
    /\ UNCHANGED <<max_retries, diskVars, run, loopVars, last_status, fails, all_rate,
                   last_msg, made, pre_failed, pre_log, abort_at, failed_writes,
                   log_writes>>

\* where a KeyboardInterrupt can arrive: between any two steps of a run
InterruptPoints == {"call", "extract", "download", "sleep", "record", "append", "persist"}

\* download_single without `except KeyboardInterrupt: raise`, its handlers
\* catching the interrupt of an attempt like any other failure
InterruptSwallowed ==
    /\ pc \in InterruptPoints
    /\ abort_at' = pc
    /\ IF pc \in {"extract", "download"}
       THEN /\ last_status' = classify_error(<<>>)
            /\ fails' = fails + 1
            /\ all_rate' = FALSE
            /\ last_msg' = <<>>
            /\ IF sleep_test(attempts, max_retries)
               THEN pc' = "sleep" /\ UNCHANGED <<attempts, extracts, downloads, ret>>
               ELSE LoopTop(attempts, classify_error(<<>>))
            /\ UNCHANGED <<loopVars, sleeps, made>>
       ELSE /\ pc' = "aborted"
            /\ urls' = <<>> /\ idx' = 0 /\ log_entries' = <<>> /\ failed_urls' = <<>>
            /\ CallReset
            /\ made' = <<>>
    /\ UNCHANGED <<max_retries, diskVars, run, pre_failed, pre_log, failed_writes,
                   log_writes>>

\* main.py:148-149 and 201-202: KeyboardInterrupt is re-raised by
\* download_single, passes through process_queue and ends main(); the frames
\* of process_queue and download_single are gone with it
Interrupt ==
    /\ pc \in InterruptPoints
    /\ abort_at' = pc
    /\ pc' = "aborted"
    /\ urls' = <<>> /\ idx' = 0 /\ log_entries' = <<>> /\ failed_urls' = <<>>
    /\ CallReset
    /\ made' = <<>>
    /\ UNCHANGED <<max_retries, diskVars, run, pre_failed, pre_log, failed_writes,
                   log_writes>>

Max(a, b) == IF a >= b THEN a ELSE b

\* main.py:172
retries_used(success, n) == IF success THEN Max(0, n - 1) ELSE n

\* the entry with the two status texts exchanged
log_entry_swapped(url, r, now) ==
    LET success == r.status = "SUCCESS" IN
    [url |-> url,
     status |-> IF success THEN "failed" ELSE "downloaded",
     status_code |-> r.status,
     retries |-> retries_used(success, r.n),
     date_created |-> now]

\* main.py:170-181
log_entry(url, r, now) ==
    LET success == r.status = "SUCCESS" IN
    [url |-> url,
     status |-> IF success THEN "downloaded" ELSE "failed",
     status_code |-> r.status,
     retries |-> retries_used(success, r.n),
     date_created |-> now]

\* the for loop left after its first pass
next_step_stop(i, us) == "append"

\* main.py:168: the for loop after the pass for position i
next_step(i, us) == IF i < Len(us) THEN "call" ELSE "append"

\* the loop body writing a failed URL to the failure file at once
RecordAndAppend ==
    /\ pc = "record"
    /\ log_entries' = Append(log_entries, log_entry(urls[idx], ret, run))
    /\ failed_urls' = failed_urls
    /\ failed_file' = IF ret.status = "SUCCESS" THEN failed_file
                      ELSE append_failed(failed_file, <<urls[idx]>>)
    /\ failed_writes' = failed_writes + (IF ret.status = "SUCCESS" THEN 0 ELSE 1)
    /\ made' = Append(made, [attempts |-> extracts,
                             all_rate |-> fails = extracts /\ extracts >= 1 /\ all_rate])
    /\ idx' = idx + 1
    /\ pc' = next_step(idx, urls)
    /\ CallReset
    /\ UNCHANGED <<max_retries, queue_file, log_file, run, urls, pre_failed, pre_log,
                   abort_at, log_writes>>

\* the loop body flushing the log after every URL
RecordAndFlush ==
    /\ pc = "record"
    /\ log_entries' = Append(log_entries, log_entry(urls[idx], ret, run))
    /\ failed_urls' = IF ret.status = "SUCCESS" THEN failed_urls
                      ELSE Append(failed_urls, urls[idx])
    /\ made' = Append(made, [attempts |-> extracts,
                             all_rate |-> fails = extracts /\ extracts >= 1 /\ all_rate])
    /\ idx' = idx + 1
    /\ pc' = next_step(idx, urls)
    /\ CallReset
    /\ log_file' = persist_log(log_entries')
    /\ log_writes' = log_writes + 1
    /\ UNCHANGED <<max_retries, queue_file, failed_file, run, urls, pre_failed, pre_log,
                   abort_at, failed_writes>>

\* main.py:170-186: the result of download_single is recorded, the loop moves on;
\* the frame of the call is gone
Record ==
    /\ pc = "record"
    /\ log_entries' = Append(log_entries, log_entry(urls[idx], ret, run))
    /\ failed_urls' = IF ret.status = "SUCCESS" THEN failed_urls
                      ELSE Append(failed_urls, urls[idx])
    /\ made' = Append(made, [attempts |-> extracts,
                             all_rate |-> fails = extracts /\ extracts >= 1 /\ all_rate])
    /\ idx' = idx + 1
    /\ pc' = next_step(idx, urls)
    /\ CallReset
    /\ UNCHANGED <<max_retries, diskVars, run, urls, pre_failed, pre_log, abort_at,
                   failed_writes, log_writes>>

\* main.py:188
AppendFailed ==
    /\ pc = "append"
    /\ failed_file' = append_failed(failed_file, failed_urls)
    /\ failed_writes' = failed_writes + (IF failed_urls = <<>> THEN 0 ELSE 1)
    /\ pc' = "persist"
    /\ UNCHANGED <<max_retries, queue_file, log_file, run, loopVars, callVars, made,
                   pre_failed, pre_log, abort_at, log_writes>>

\* main.py:189-195
PersistLog ==
    /\ pc = "persist"
    /\ log_file' = persist_log(log_entries)
    /\ log_writes' = log_writes + 1
    /\ pc' = "done"
    /\ UNCHANGED <<max_retries, queue_file, failed_file, run, loopVars, callVars, made,
                   pre_failed, pre_log, abort_at, failed_writes>>

-----------------------------------------------------------------------------
(* Specifications *)

Init == RunInit /\ ClsParked /\ QParked

Next ==
    \/ (StartRun /\ UNCHANGED <<clsVars, qVars>>)
    \/ (Call /\ UNCHANGED <<clsVars, qVars>>)
    \/ (ExtractOk /\ UNCHANGED <<clsVars, qVars>>)
    \/ (DownloadOk /\ UNCHANGED <<clsVars, qVars>>)
    \/ (RecognizedFailure /\ UNCHANGED <<clsVars, qVars>>)
    \/ (UnexpectedFailure /\ UNCHANGED <<clsVars, qVars>>)
    \/ (SleepDone /\ UNCHANGED <<clsVars, qVars>>)
    \/ (Interrupt /\ UNCHANGED <<clsVars, qVars>>)
    \/ (Record /\ UNCHANGED <<clsVars, qVars>>)
    \/ (AppendFailed /\ UNCHANGED <<clsVars, qVars>>)
    \/ (PersistLog /\ UNCHANGED <<clsVars, qVars>>)

Spec == Init /\ [][Next]_vars

\* a step of download_single: it is entered, an external call returns or
\* raises, a sleep returns
DownloadSingleStep ==
    Call \/ ExtractOk \/ DownloadOk \/ RecognizedFailure \/ UnexpectedFailure
         \/ SleepDone

\* download_single reads the URL and cfg.max_retries only: its runs are
\* followed from the queues of one and of two URLs
LiveScenarios == {<<Q_one, St_none>>, <<Q_two, St_old>>}

InitLive ==
    /\ Init
    /\ \E sc \in LiveScenarios :
          queue_file = sc[1] /\ failed_file = sc[2].failed /\ log_file = sc[2].log

\* runs in which every external call and every sleep returns
SpecLive ==
    /\ InitLive
    /\ [][Next]_vars
    /\ WF_vars(DownloadSingleStep /\ UNCHANGED <<clsVars, qVars>>)

\* classify_error on every message
InitClassify == ClsInit /\ QParked /\ RunParked
NextClassify == Classify /\ UNCHANGED <<qVars, runVars>>
SpecClassify == InitClassify /\ [][NextClassify]_vars

\* load_queue on every queue file
InitQueue == QInit /\ ClsParked /\ RunParked
NextQueue ==
    \/ (QOpen /\ UNCHANGED <<clsVars, runVars>>)
    \/ (QLine /\ UNCHANGED <<clsVars, runVars>>)
    \/ (QReturn /\ UNCHANGED <<clsVars, runVars>>)
SpecQueue == InitQueue /\ [][NextQueue]_vars


-----------------------------------------------------------------------------
(* Properties of the retry loop and of a run *)

\* what the run has appended to log_entries
RunEntries == SubSeq(log_entries, Len(log_entries) - Len(made) + 1, Len(log_entries))

\* the lines of a text file, none for a missing file
FileLines(f) == IF f.exists THEN splitlines(read_text(f.text)) ELSE <<>>

\* the entries a log file holds
PersistedEntries(f) == IF f.exists /\ f.kind = "list" THEN f.entries ELSE <<>>

IsPrefix(a, b) == Len(a) <= Len(b) /\ \A k \in 1..Len(a) : a[k] = b[k]

\* C1: download_single has returned after `fails` failed attempts and one more
\* attempt that did not fail (attempt k = fails + 1 <= max_retries): it returned
\* (SUCCESS, k - 1), slept exactly k - 1 times, and attempt k was the last
C1_SuccessAfterFailures ==
    (pc = "record" /\ extracts = fails + 1)
        => /\ ret = [status |-> "SUCCESS", n |-> extracts - 1]
           /\ sleeps = extracts - 1
           /\ extracts <= max_retries

\* success on attempt 2 of a max of 3: (SUCCESS, 1) after one sleep
C1_Witness ==
    /\ pc = "record" /\ max_retries = 3
    /\ extracts = 2 /\ fails = 1 /\ sleeps = 1
    /\ ret = [status |-> "SUCCESS", n |-> 1]

\* C2: when max_retries >= 1 and every attempt failed with a rate-limit-shaped
\* message, download_single returns (RATE_LIMIT, max_retries) after exactly
\* max_retries attempts and max_retries - 1 sleeps; once the run is complete
\* the URL is a line of the failure file
C2_RateLimitExhausted ==
    /\ (pc = "record" /\ max_retries >= 1 /\ fails = extracts /\ all_rate)
          => /\ ret = [status |-> "RATE_LIMIT", n |-> max_retries]
             /\ extracts = max_retries
             /\ sleeps = max_retries - 1
    /\ pc = "done"
          => \A j \in 1..Len(made) :
                made[j].all_rate
                    => \E k \in 1..Len(FileLines(failed_file)) :
                           FileLines(failed_file)[k] = urls[j]

\* max_retries = 3: three attempts, and the URL is in the failure file
C2_Witness ==
    /\ pc = "done" /\ max_retries = 3
    /\ \E j \in 1..Len(made) :
          /\ made[j].all_rate /\ made[j].attempts = 3
          /\ RunEntries[j].status_code = "RATE_LIMIT"
          /\ \E k \in 1..Len(FileLines(failed_file)) : FileLines(failed_file)[k] = urls[j]

\* C3: the retries field of the entry recorded for a URL is the attempts made
\* minus one when the URL was downloaded, and the attempts made when it failed
C3_RetriesField ==
    \A j \in 1..Len(made) :
        /\ RunEntries[j].status = "downloaded"
              => RunEntries[j].retries = made[j].attempts - 1
        /\ RunEntries[j].status = "failed"
              => RunEntries[j].retries = made[j].attempts


\* C4: a KeyboardInterrupt that arrives during an attempt or during the sleep
\* between two attempts ends the run at once: the run is aborted with no
\* attempt started after it, neither file has been written, and both files are
\* as they were when the run started
C4_InterruptAborts ==
    abort_at \in {"extract", "download", "sleep"}
        => /\ pc = "aborted"
           /\ extracts = 0 /\ downloads = 0
           /\ failed_writes = 0 /\ log_writes = 0
           /\ failed_file = pre_failed
           /\ log_file = pre_log

\* the second run is interrupted in a sleep, with the storage the first run
\* left
C4_Witness ==
    /\ pc = "aborted" /\ abort_at = "sleep" /\ run = 2
    /\ Len(PersistedEntries(log_file)) >= 2
    /\ Len(FileLines(failed_file)) >= 1

\* C5: a run that is not interrupted records every URL of the queue: while a
\* URL is being attempted all URLs before it, and no other, have their entry;
\* the completed run has appended one entry per queue URL, in queue order; only
\* an interrupt aborts a run
C5_EveryUrlRecorded ==
    /\ pc \in {"call", "extract", "download", "sleep", "record"}
          => /\ idx \in 1..Len(urls)
             /\ Len(made) = idx - 1
             /\ Len(log_entries) = Len(PersistedEntries(pre_log)) + idx - 1
    /\ (pc = "done" /\ urls # <<>>)
          => /\ Len(made) = Len(urls)
             /\ Len(log_entries) = Len(PersistedEntries(pre_log)) + Len(urls)
             /\ \A j \in 1..Len(urls) :
                   /\ RunEntries[j].url = urls[j]
                   /\ RunEntries[j].date_created = run
    /\ pc = "aborted" => abort_at # "none"

\* the same URL twice in the queue: the first exhausts its retries, the second
\* is downloaded, and both have their entry
C5_Witness ==
    /\ pc = "done" /\ Len(urls) = 2 /\ urls[1] = urls[2] /\ max_retries = 3
    /\ RunEntries[1].status = "failed" /\ RunEntries[1].retries = 3
    /\ RunEntries[2].status = "downloaded"

RECURSIVE FailedOf(_)
\* the URLs of the entries with status "failed", in order
FailedOf(es) ==
    IF es = <<>> THEN <<>>
    ELSE (IF Head(es).status = "failed" THEN <<Head(es).url>> ELSE <<>>)
         \o FailedOf(Tail(es))

\* C6: after a completed run the lines of the failure file are the lines it had
\* before the run followed by the URLs that failed in the run, in processing
\* order; a run without a failure leaves the file as it was
C6_FailureFileAppendOnly ==
    pc = "done"
        => /\ FileLines(failed_file) = FileLines(pre_failed) \o FailedOf(RunEntries)
           /\ FailedOf(RunEntries) = <<>> => failed_file = pre_failed

\* two runs over one queue with a URL that fails in both: the failure file
\* holds the URL twice
C6_Witness ==
    /\ pc = "done" /\ run = 2 /\ Len(urls) = 1
    /\ FailedOf(RunEntries) = <<urls[1]>>
    /\ Len(FileLines(pre_failed)) >= 2
    /\ \E a, b \in 1..Len(FileLines(failed_file)) :
          a < b /\ FileLines(failed_file)[a] = urls[1] /\ FileLines(failed_file)[b] = urls[1]

\* C7: the entries the log file held when a run started are a prefix of the
\* entries it holds during and after the run
C7_LogAppendOnly == IsPrefix(PersistedEntries(pre_log), PersistedEntries(log_file))

\* the second run has persisted its entries behind an older entry and the
\* entries of the first run
C7_Witness ==
    /\ pc = "done" /\ run = 2
    /\ Len(PersistedEntries(pre_log)) >= 2
    /\ PersistedEntries(pre_log)[1] = OldEntry
    /\ Len(PersistedEntries(log_file)) > Len(PersistedEntries(pre_log))

\* C8: a run whose queue file is missing or yields no URL completes without an
\* attempt, without a log entry and without writing either file
C8_EmptyQueue ==
    (run >= 1 /\ abort_at = "none" /\ urls = <<>>)
        => /\ pc = "done"
           /\ extracts = 0 /\ made = <<>> /\ log_entries = <<>>
           /\ failed_writes = 0 /\ log_writes = 0
           /\ failed_file = pre_failed
           /\ log_file = pre_log

\* a queue file of comments, blank lines and other hosts, with older storage
C8_Witness ==
    /\ pc = "done" /\ run >= 1 /\ urls = <<>> /\ queue_file.exists
    /\ PersistedEntries(log_file) = <<OldEntry>>
    /\ FileLines(failed_file) = <<S_old>>


-----------------------------------------------------------------------------
(* Properties of the classifier *)

\* C9 as stated, the rules read in the order given: "429" gives RATE_LIMIT,
\* else "age" with "restrict" gives AGE_LIMIT, every other message
\* UNKNOWN_ERROR; letters compared without regard to case
C9_AsStated ==
    c_pc = "done"
        => c_ret = IF HasWord(c_exc, S_429) THEN "RATE_LIMIT"
                   ELSE IF HasWord(c_exc, S_age) /\ HasWord(c_exc, S_restrict)
                   THEN "AGE_LIMIT"
                   ELSE "UNKNOWN_ERROR"

\* C9 amended: a message with "429", "too many requests" or "rate" in it gives
\* RATE_LIMIT, any other message with both "age" and "restrict" gives
\* AGE_LIMIT, every other message UNKNOWN_ERROR; letters compared without
\* regard to case
C9_Classification ==
    c_pc = "done"
        => /\ RateShaped(c_exc) => c_ret = "RATE_LIMIT"
           /\ (~RateShaped(c_exc) /\ HasWord(c_exc, S_age) /\ HasWord(c_exc, S_restrict))
                 => c_ret = "AGE_LIMIT"
           /\ (~RateShaped(c_exc) /\ ~(HasWord(c_exc, S_age) /\ HasWord(c_exc, S_restrict)))
                 => c_ret = "UNKNOWN_ERROR"

\* "AgeRestrictRATE": both rule sets match, in mixed case, and no "429"
C9_Witness ==
    /\ c_pc = "done"
    /\ c_exc = M_Age \o M_restrict \o M_RATE
    /\ c_ret = "RATE_LIMIT"

-----------------------------------------------------------------------------
(* Properties of the queue loader *)

Blank(line) == \A k \in 1..Len(line) : IsSpace(line[k])

\* the first character that is not whitespace is "#"
HashFirst(line) ==
    \E k \in 1..Len(line) : line[k] = "#" /\ \A j \in 1..(k - 1) : IsSpace(line[j])

\* the line without its leading and trailing whitespace
Trimmed(line) ==
    IF Blank(line) THEN <<>>
    ELSE LET ends == CHOOSE ab \in (1..Len(line)) \X (1..Len(line)) :
                         /\ \A j \in 1..Len(line) :
                               (j < ab[1] \/ j > ab[2]) => IsSpace(line[j])
                         /\ ~IsSpace(line[ab[1]]) /\ ~IsSpace(line[ab[2]])
         IN  SubSeq(line, ends[1], ends[2])

Schemes == {S_http \o S_css, S_http \o <<"s">> \o S_css}

\* t[a..c-1] is a parenthesised http(s) URL: "(" before it, ")" at c, a
\* scheme and at least one more character, no whitespace, no ")"
LinkSpan(t, a, c) ==
    /\ a >= 2 /\ t[a - 1] = "("
    /\ c <= Len(t) /\ t[c] = ")"
    /\ \A k \in a..(c - 1) : ~IsSpace(t[k]) /\ t[k] # ")"
    /\ \E sch \in Schemes : MatchAt(t, a, sch) /\ c - a > Len(sch)

HasLink(t) == \E a, c \in 1..Len(t) : LinkSpan(t, a, c)

\* the first parenthesised http(s) URL of t
FirstLink(t) ==
    LET a == CHOOSE a \in 1..Len(t) :
                 /\ \E c \in 1..Len(t) : LinkSpan(t, a, c)
                 /\ \A b \in 1..(a - 1) : ~\E c \in 1..Len(t) : LinkSpan(t, b, c)
        c == CHOOSE c \in 1..Len(t) : LinkSpan(t, a, c)
    IN  SubSeq(t, a, c - 1)

\* the candidate of a line
Candidate(line) ==
    IF HasLink(Trimmed(line)) THEN FirstLink(Trimmed(line)) ELSE Trimmed(line)

\* http(s)://, an optional www., youtube.com or youtu.be, and a slash
HostPatterns ==
    {sch \o w \o h \o <<"/">> : sch \in Schemes, w \in {<<>>, S_www},
                                h \in {S_youtube_com, S_youtu_be}}

MatchesHost(c) == \E pat \in HostPatterns : HasWord(c, pat)

\* what a line contributes to the result
Contribution(line) ==
    IF Blank(line) \/ HashFirst(line) \/ ~MatchesHost(Candidate(line))
    THEN <<>>
    ELSE <<Candidate(line)>>

RECURSIVE Contributions(_)
Contributions(lines) ==
    IF lines = <<>> THEN <<>>
    ELSE Contribution(Head(lines)) \o Contributions(Tail(lines))

\* C10: load_queue returns, in file order and with duplicates kept, the
\* candidate of every line that is not blank, does not start with "#" after
\* trimming and whose candidate (its first parenthesised http(s) URL, else the
\* trimmed line) matches the host pattern; a missing file gives no URL
C10_LoadQueue ==
    q_pc = "done"
        => /\ q_urls = Contributions(q_lines)
           /\ ~q_file.exists => q_urls = <<>>

\* the same markdown link on two lines: the URL inside the parentheses is
\* returned twice
C10_Witness ==
    /\ q_pc = "done"
    /\ q_lines = <<L_markdown, L_markdown>>
    /\ q_urls = <<SubSeq(L_markdown, 5, 25), SubSeq(L_markdown, 5, 25)>>

-----------------------------------------------------------------------------
(* Properties of the run recorder *)

\* C11 as stated: every run that reaches its normal end has written the log
\* storage exactly once, and no write happens before every URL of the queue is
\* resolved
C11_AsStated ==
    /\ pc = "done" => log_writes = 1
    /\ log_writes >= 1 => pc = "done" /\ Len(made) = Len(urls)

\* C11: every run with a non-empty queue that reaches its normal end has
\* written the log storage exactly once; a run with an empty queue does not
\* write it; and the storage is written (or differs from what the run found)
\* only once every URL of the queue is resolved
C11_LogWrittenOnce ==
    /\ (pc = "done" /\ run >= 1)
          => log_writes = (IF urls = <<>> THEN 0 ELSE 1)
    /\ (log_writes >= 1 \/ log_file # pre_log)
          => pc = "done" /\ log_writes = 1 /\ Len(made) = Len(urls)

\* a run over two URLs is done and has written the log once
C11_Witness ==
    /\ pc = "done" /\ Len(urls) = 2 /\ Len(made) = 2
    /\ log_writes = 1
    /\ log_file # pre_log

\* the lines the failure file has gained since the run started
NewLines ==
    IF failed_file = pre_failed THEN <<>>
    ELSE SubSeq(FileLines(failed_file), Len(FileLines(pre_failed)) + 1,
                Len(FileLines(failed_file)))

\* the entries the log storage has gained since the run started
NewEntries ==
    SubSeq(PersistedEntries(log_file), Len(PersistedEntries(pre_log)) + 1,
           Len(PersistedEntries(log_file)))

\* C12 as stated: in every state the failure file holds URLs added by the
\* current run only if the persisted log holds the run's entries for them
C12_AsStated ==
    NewLines # <<>> => NewLines = FailedOf(NewEntries)

\* C12: a run that stops before its two writes leaves both files as they were
\* when it started; the failure file is written before the log, so the log
\* holds entries of the current run only if the failure file holds the URLs of
\* the failed ones, and the failure file holds URLs of the current run without
\* their entries only between the two writes (or for good, when the run stops
\* there)
C12_FailureFileThenLog ==
    /\ abort_at \in InterruptPoints \ {"persist"}
          => failed_file = pre_failed /\ log_file = pre_log
    /\ NewEntries # <<>> => NewLines = FailedOf(NewEntries)
    /\ (NewLines # <<>> /\ NewEntries = <<>>)
          => \/ pc = "persist"
             \/ pc = "aborted" /\ abort_at = "persist"

\* the run stopped between the two writes: its failed URL is in the failure
\* file, none of its entries is in the log
C12_Witness ==
    /\ pc = "aborted" /\ abort_at = "persist"
    /\ NewLines # <<>>
    /\ log_file = pre_log

-----------------------------------------------------------------------------
(* Properties of download_single *)

\* C13: when every external call and every sleep returns, a call of
\* download_single ends (it returns, or an interrupt ends the run); at no time
\* are more than max_retries attempts made; and when it returns without
\* success it returns max_retries as the number of attempts, having made that
\* many
C13_Terminates ==
    /\ [](attempts <= max_retries /\ extracts <= max_retries)
    /\ []((pc = "record" /\ ret.status # "SUCCESS")
             => (ret.n = max_retries /\ extracts = max_retries))
    /\ (pc \in {"call", "extract", "download", "sleep"}
           ~> pc \in {"record", "aborted"})

\* download_single returns after three failed attempts of three, the last two
\* failures of different kinds
C13_Witness ==
    /\ pc = "record" /\ max_retries = 3
    /\ ret.n = 3 /\ ret.status = "AGE_LIMIT"
    /\ extracts = 3 /\ sleeps = 2 /\ ~all_rate

\* C14 as stated: under every configuration, max_retries = 0 too,
\* download_single has made at least one attempt when it returns, and every
\* URL the run has recorded was attempted
C14_AsStated ==
    /\ pc = "record" => extracts >= 1
    /\ \A j \in 1..Len(made) : made[j].attempts >= 1

\* C14: with max_retries >= 1 download_single has made at least one attempt
\* when it returns and every recorded URL was attempted; with max_retries = 0
\* it returns (UNKNOWN_ERROR, 0) without an attempt and the URL is recorded as
\* failed
C14_FirstAttempt ==
    /\ pc = "record"
          => /\ extracts >= 1 <=> max_retries >= 1
             /\ max_retries = 0 => ret = [status |-> "UNKNOWN_ERROR", n |-> 0]
    /\ \A j \in 1..Len(made) :
          /\ made[j].attempts >= 1 <=> max_retries >= 1
          /\ max_retries = 0
                => /\ RunEntries[j].status = "failed"
                   /\ RunEntries[j].status_code = "UNKNOWN_ERROR"
                   /\ RunEntries[j].retries = 0

\* with max_retries = 1 a URL was recorded as failed after its one attempt
C14_Witness ==
    /\ max_retries = 1 /\ Len(made) >= 1
    /\ made[1].attempts = 1
    /\ RunEntries[1].status = "failed"

\* C15: an attempt is one call of extract_info followed, only if it returned,
\* by at most one call of download: download is called only from an attempt
\* whose extraction returned; every attempt opens with extract_info, so there
\* are as many extractions as attempts and never more than max_retries, and
\* never more download calls than extractions; a failure of either step ends
\* exactly the attempt it occurs in, and the attempt after it starts at
\* extract_info again
C15_SingleAttempt ==
    /\ [](/\ extracts = attempts /\ extracts <= max_retries
          /\ downloads <= 1 /\ downloads <= extracts
          /\ pc = "extract" => downloads = 0 /\ fails = attempts - 1
          /\ pc = "download" => downloads = 1 /\ fails = attempts - 1
          /\ pc = "sleep" => fails = attempts)
    /\ [][/\ downloads' = downloads + 1
              => /\ pc = "extract" /\ pc' = "download"
                 /\ extracts' = extracts /\ fails' = fails
          /\ extracts' = extracts + 1
              => pc' = "extract" /\ downloads' = 0 /\ attempts' = attempts + 1
          /\ fails' = fails + 1
              => /\ pc \in {"extract", "download"}
                 /\ attempts' = attempts /\ pc' \in {"sleep", "record"}]_vars

\* the second attempt started at extract_info again and failed in its
\* download step, as the first did or not; two attempts are used up
C15_Witness ==
    /\ pc = "sleep" /\ attempts = 2 /\ fails = 2
    /\ extracts = 2 /\ downloads = 1

\* the status of a message by the rules of the classifier: a rate-limit shape
\* first, then "age" with "restrict", in any case
StatusOf(msg) ==
    IF RateShaped(msg) THEN "RATE_LIMIT"
    ELSE IF HasWord(msg, S_age) /\ HasWord(msg, S_restrict) THEN "AGE_LIMIT"
    ELSE "UNKNOWN_ERROR"

\* what handling a failed attempt comes to: its message is classified into
\* last_status, the attempt is used up, and a sleep follows if attempts remain,
\* the return of (last_status, attempts) if not
HandledAsFailure ==
    \E msg \in RunMessages :
        /\ last_msg' = msg /\ fails' = fails + 1
        /\ last_status' = StatusOf(msg)
        /\ attempts' = attempts /\ extracts' = extracts
        /\ IF attempts < max_retries
           THEN pc' = "sleep" /\ ret' = ret
           ELSE pc' = "record" /\ ret' = [status |-> StatusOf(msg), n |-> attempts]

\* C16: when download_single returns after failed attempts only, the status it
\* returns, and the status_code then logged for the URL, is the status of the
\* last attempt's message; a recognized and an unexpected failure are both
\* handled as a failed attempt; and a sleep that returns is followed by the
\* next attempt
C16_LastFailureWins ==
    /\ []((pc = "record" /\ ret.status # "SUCCESS" /\ fails >= 1)
             => (ret.status = StatusOf(last_msg) /\ fails = max_retries))
    /\ [][(pc = "record" /\ pc' \in {"call", "append"}
              /\ ret.status # "SUCCESS" /\ fails >= 1)
             => log_entries'[Len(log_entries')].status_code = StatusOf(last_msg)]_vars
    /\ [][(RecognizedFailure \/ UnexpectedFailure) => HandledAsFailure]_vars
    /\ [][(pc = "sleep" /\ pc' \notin {"sleep", "aborted"})
             => (pc' = "extract" /\ attempts' = attempts + 1)]_vars

\* three attempts of three failed, not all on a rate limit, the last one on a
\* rate limit: RATE_LIMIT is returned
C16_Witness ==
    /\ pc = "record" /\ max_retries = 3 /\ fails = 3
    /\ last_msg = E_rate /\ ~all_rate
    /\ ret = [status |-> "RATE_LIMIT", n |-> 3]

-----------------------------------------------------------------------------
(* Properties of the log storage *)

\* C17: a run with a non-empty queue that finds log storage that does not parse,
\* or parses to something that is not an array, starts from an empty log: its
\* list holds the entries of this run only, the storage does not end the run
\* (nothing but an interrupt does), and at its normal end the log file holds
\* exactly this run's entries, one per URL of the queue
C17_MalformedLogIsEmpty ==
    /\ pc = "aborted" => abort_at \in InterruptPoints
    /\ (pre_log.kind \in {"malformed", "nonlist"} /\ urls # <<>>)
          => /\ pc \in {"call", "extract", "download", "sleep", "record", "append",
                        "persist", "done"}
             /\ Len(log_entries) = Len(made)
             /\ pc = "done"
                   => /\ log_file = ListLog(log_entries)
                      /\ Len(log_entries) = Len(urls)
                      /\ \A j \in 1..Len(urls) :
                            /\ log_entries[j].url = urls[j]
                            /\ log_entries[j].date_created = run

\* a run that found an unparsable log file is done: the file holds its one entry
C17_Witness ==
    /\ pc = "done" /\ pre_log = MalformedLog
    /\ Len(urls) = 1
    /\ PersistedEntries(log_file) = RunEntries
    /\ Len(RunEntries) = 1

-----------------------------------------------------------------------------
(* Properties of the classifier: precedence *)

\* w is a slice of the lower-cased message
InLowered(msg, w) ==
    LET low == [k \in 1..Len(msg) |-> LowerChar(msg[k])] IN
    \E a \in 1..Len(msg) :
        /\ a + Len(w) - 1 <= Len(msg)
        /\ SubSeq(low, a, a + Len(w) - 1) = w

\* C18: classify_error returns one of RATE_LIMIT, AGE_LIMIT and UNKNOWN_ERROR,
\* never SUCCESS: RATE_LIMIT exactly when the lower-cased message contains
\* "429", "too many requests" or "rate"; AGE_LIMIT exactly when it contains
\* none of these and both "age" and "restrict"; UNKNOWN_ERROR exactly in the
\* remaining case.  A message matching both rule sets gives RATE_LIMIT
C18_Precedence ==
    c_pc = "done"
        => LET rate == \/ InLowered(c_exc, S_429)
                       \/ InLowered(c_exc, S_too_many_requests)
                       \/ InLowered(c_exc, S_rate)
               age == InLowered(c_exc, S_age) /\ InLowered(c_exc, S_restrict)
           IN  /\ c_ret \in {"RATE_LIMIT", "AGE_LIMIT", "UNKNOWN_ERROR"}
               /\ c_ret = "RATE_LIMIT" <=> rate
               /\ c_ret = "AGE_LIMIT" <=> (~rate /\ age)
               /\ c_ret = "UNKNOWN_ERROR" <=> (~rate /\ ~age)

\* "AgeRestrict429" matches both rule sets and is a rate limit
C18_Witness ==
    /\ c_pc = "done"
    /\ c_exc = M_Age \o M_restrict \o M_429
    /\ c_ret = "RATE_LIMIT"

-----------------------------------------------------------------------------
(* Properties of the entries of a run *)

\* C19: every entry the run has appended has status "downloaded" with
\* status_code SUCCESS, or status "failed" with status_code RATE_LIMIT,
\* AGE_LIMIT or UNKNOWN_ERROR; the run's list of failed URLs is, in order, the
\* URLs of its entries with status "failed"; and once the failure file is
\* written the lines the run added to it are these URLs, in the same order
C19_EntriesConsistent ==
    /\ \A j \in 1..Len(RunEntries) :
          LET e == RunEntries[j] IN
          /\ e.status \in {"downloaded", "failed"}
          /\ e.status = "downloaded" <=> e.status_code = "SUCCESS"
          /\ e.status = "failed"
                <=> e.status_code \in {"RATE_LIMIT", "AGE_LIMIT", "UNKNOWN_ERROR"}
    /\ pc \notin {"idle", "aborted"} => failed_urls = FailedOf(RunEntries)
    /\ pc \in {"persist", "done"} => NewLines = FailedOf(RunEntries)

\* a run over two URLs is done: the first was downloaded, the second failed
\* and is the one line the failure file has gained
C19_Witness ==
    /\ pc = "done" /\ Len(RunEntries) = 2
    /\ RunEntries[1].status = "downloaded"
    /\ RunEntries[2].status = "failed"
    /\ NewLines = <<urls[2]>>

====
